---------------------------- MODULE Spec2Model ----------------------------
(***************************************************************************)
(* A model of the two batch converters scripts/csv_to_parquet.py and       *)
(* scripts/npy_to_parquet.py: directory discovery, the skip/overwrite      *)
(* decision, loading with its fatal error paths, the Parquet write and the *)
(* end-of-run summary, over a small file system and up to MaxRuns runs.    *)
(*                                                                         *)
(* A file name is a sequence of tokens ("." is the dot), a path is a       *)
(* sequence of names relative to START_DIRECTORY.                          *)
(***************************************************************************)
EXTENDS Integers, Sequences, FiniteSets, TLC

\* Number of consecutive runs of the script over the same file system.
MaxRuns == 2

VARIABLES
    pipeline,              \* "csv" | "npy": which script runs
    overwrite,             \* arguments.overwrite
    index,                 \* whether arguments.index is set (csv)
    datetimes,             \* whether arguments.datetimes is set (csv)
    formatArg,             \* arguments.format: a path, or NoPath (npy)
    npy_format,            \* the Format Specification loaded at start (npy)
    dirs,                  \* the directories of the file system
    files,                 \* the regular files of the file system, with contents
    pc,                    \* "scan" | "done" | "aborted"
    campaign_directories,  \* the list computed before the outer loop (csv)
    campTodo,              \* campaigns the outer loop has not reached yet
    curCamp,               \* campaign of the running inner loop, or NoPath
    todo,                  \* candidates the (inner) loop has not reached yet
    original_sizes,
    parquet_sizes,
    num_files_converted,
    num_files_skipped,
    empty_directories,
    summary,               \* the summaries printed by this run
    error,                 \* the exception that ended this run
    run,                   \* number of the current run
    \* history of the current run, read only by the properties
    selected,              \* every entry discovery has yielded
    listed,                \* experiment directories whose CSV files were listed
    statted,               \* source files whose size was read
    loaded,                \* source files handed to read_csv / numpy.load
    written,               \* output writes: [path, by, size]
    skipped,               \* candidates skipped because their output exists
    prev                   \* how the previous run began and ended

vars == <<pipeline, overwrite, index, datetimes, formatArg, npy_format, dirs,
          files, pc, campaign_directories, campTodo, curCamp, todo,
          original_sizes, parquet_sizes, num_files_converted,
          num_files_skipped, empty_directories, summary, error, run,
          selected, listed, statted, loaded, written, skipped, prev>>

-----------------------------------------------------------------------------
(* Names and paths (pathlib) *)

NoPath == << <<>> >>

Root == <<>>

Name(p) == p[Len(p)]

Parent(p) == SubSeq(p, 1, Len(p) - 1)

\* str.startswith('.')
IsHidden(name) == Len(name) > 0 /\ name[1] = "."

\* str.rfind('.'), 1-based, 0 when there is no dot
RFindDot(name) ==
    LET dots == {i \in 1..Len(name) : name[i] = "."}
    IN  IF dots = {} THEN 0 ELSE CHOOSE i \in dots : \A j \in dots : j <= i

\* PurePath.suffix: the last dot counts unless it leads or ends the name
HasSuffix(name) == 1 < RFindDot(name) /\ RFindDot(name) < Len(name)

\* PurePath.with_suffix('.parquet') on the last component
WithSuffixParquet(p) ==
    LET name == Name(p)
        stem == IF HasSuffix(name) THEN SubSeq(name, 1, RFindDot(name) - 1)
                ELSE name
    IN  Parent(p) \o << stem \o <<".", "parquet">> >>

\* npy_filename.with_name(npy_filename.name + '_format.yml')
FormatFileOf(p) == Parent(p) \o << Name(p) \o <<"_format", ".", "yml">> >>

\* Tokens in the order Python compares the strings they stand for
TokenOrder == <<".", "1", "2", "CSV", "NPY", "_format", "a", "b", "c", "csv",
                "d", "e", "f", "g", "h", "k", "n", "npy", "parquet", "txt",
                "u", "x", "yml">>

Rank(t) == CHOOSE i \in 1..Len(TokenOrder) : TokenOrder[i] = t

RECURSIVE NameLess(_, _)
NameLess(a, b) ==
    IF a = <<>> THEN b # <<>>
    ELSE IF b = <<>> THEN FALSE
    ELSE IF a[1] = b[1] THEN NameLess(Tail(a), Tail(b))
    ELSE Rank(a[1]) < Rank(b[1])

\* list.sort() of paths in one directory
RECURSIVE Sorted(_)
Sorted(S) ==
    IF S = {} THEN <<>>
    ELSE LET m == CHOOSE x \in S :
                    \A y \in S \ {x} : NameLess(Name(x), Name(y))
         IN  <<m>> \o Sorted(S \ {m})

Range(s) == {s[i] : i \in 1..Len(s)}

-----------------------------------------------------------------------------
(* Glob patterns: the defaults of the two scripts *)

\* GLOB_DIRECTORY_PATTERN = "*"
MatchesDirectoryPattern(name) == TRUE

\* GLOB_SUBDIRECTORY_PATTERN = "*"
MatchesSubdirectoryPattern(name) == TRUE

\* GLOB_CSV_PATTERN = "*.[Cc][Ss][Vv]"
MatchesCsvPattern(name) ==
    Len(name) >= 2 /\ name[Len(name) - 1] = "." /\ name[Len(name)] \in {"csv", "CSV"}

\* GLOB_NPY_PATTERN = "*.[Nn][Pp][Yy]"
MatchesNpyPattern(name) ==
    Len(name) >= 2 /\ name[Len(name) - 1] = "." /\ name[Len(name)] \in {"npy", "NPY"}

-----------------------------------------------------------------------------
(* File contents *)

NoFormat == [columns |-> <<>>, date_column |-> {}]

\* NPY_FORMAT_DEFAULT
NpyFormatDefault ==
    [columns |-> <<"Time", "Current", "Voltage", "Temperature">>,
     date_column |-> {<<"Time", "s">>}]

\* units pandas.to_datetime accepts
ValidUnits == {"D", "s", "ms", "us", "ns"}

\* a source file: a CSV table or a raw array
Source(type, ok, ncols, size) ==
    [type |-> type, ok |-> ok, ncols |-> ncols, size |-> size,
     fmt |-> NoFormat, by |-> NoPath, run |-> 0]

\* a Parquet file written for candidate `by` in run `r`
Parquet(by, r, size) ==
    [type |-> "parquet", ok |-> TRUE, ncols |-> 0, size |-> size,
     fmt |-> NoFormat, by |-> by, run |-> r]

\* a YAML format file
Yaml(fmt) ==
    [type |-> "yml", ok |-> TRUE, ncols |-> 0, size |-> 1,
     fmt |-> fmt, by |-> NoPath, run |-> 0]

Other == Source("other", TRUE, 0, 1)

-----------------------------------------------------------------------------
(* The file systems the runs start from *)

CampC == <<"c">>
CampD == <<"d">>
CampHidden == <<".", "c">>
ExpE1 == <<"e", ".", "1">>
ExpE2 == <<"e", ".", "2">>
ExpK == <<"k">>
ExpX == <<"x">>
ExpHidden == <<".", "e">>
CsvA == <<"a", ".", "csv">>
CsvB == <<"b", ".", "CSV">>
CsvC == <<"c", ".", "csv">>
CsvHidden == <<".", "h", ".", "csv">>
NpyA == <<"a", ".", "npy">>
NpyAUpper == <<"a", ".", "NPY">>
NpyB == <<"b", ".", "npy">>
NpyHidden == <<".", "h", ".", "npy">>
Notes == <<"n", ".", "txt">>
UserYaml == <<"u", ".", "yml">>

GoodCsv == Source("csv", TRUE, 0, 3)

\* st_size of the CSV files of experiment e.1
CsvSize(name) ==
    CASE name = CsvA -> 3 [] name = CsvB -> 5 [] name = CsvC -> 7 [] OTHER -> 11

FunctionOf(pairs) ==
    [p \in {pr[1] : pr \in pairs} |-> (CHOOSE pr \in pairs : pr[1] = p)[2]]

\* A start directory of campaigns: always a hidden campaign and a plain file;
\* campaign c holds a hidden experiment, a plain file, the experiments
\* `exps` (e.1 with the CSV files `leafs`, of which `bad` does not parse) and,
\* with `pre`, an e.parquet left by an earlier conversion.
CsvFileSystem(camps, exps, leafs, bad, pre) ==
    [dirs |->
        {Root, <<CampHidden>>, <<CampHidden, ExpX>>}
        \cup {<<c>> : c \in camps}
        \cup (IF CampC \in camps
               THEN {<<CampC, ExpHidden>>} \cup {<<CampC, e>> : e \in exps}
               ELSE {})
        \cup (IF CampD \in camps THEN {<<CampD, ExpX>>} ELSE {}),
     files |-> FunctionOf(
        {<< <<<<"f">>>>, Other >>, << <<CampHidden, ExpX, CsvA>>, GoodCsv >>}
        \cup (IF CampC \in camps
               THEN {<< <<CampC, <<"g">>>>, Other >>,
                     << <<CampC, ExpHidden, CsvA>>, GoodCsv >>}
                    \cup (IF ExpE1 \in exps
                           THEN {<< <<CampC, ExpE1, Notes>>, Other >>}
                                \cup {<< <<CampC, ExpE1, l>>,
                                         Source("csv", l # bad, 0, CsvSize(l)) >>
                                       : l \in leafs}
                           ELSE {})
                    \cup {<< <<CampC, e, CsvA>>, GoodCsv >>
                           : e \in exps \cap {ExpE2, ExpK}}
                    \cup (IF pre
                           THEN {<< WithSuffixParquet(<<CampC, ExpE1>>),
                                    Parquet(NoPath, 0, 2) >>}
                           ELSE {})
               ELSE {})
        \cup (IF CampD \in camps
               THEN {<< <<CampD, ExpX, CsvA>>, GoodCsv >>}
               ELSE {}))]

CsvFileSystems ==
    {CsvFileSystem(camps, exps, leafs, bad, pre) :
        camps \in {{}, {CampC, CampD}},
        exps \in {{}, {ExpE1}, {ExpE1, ExpE2}, {ExpE1, ExpK}},
        leafs \in {{}, {CsvA}, {CsvA, CsvB, CsvC}, {CsvHidden, CsvA}},
        bad \in {<<>>, CsvA, CsvB, CsvC},
        pre \in BOOLEAN}

FormatThree ==
    [columns |-> <<"Time", "Current", "Voltage">>,
     date_column |-> {<<"Time", "s">>}]

FormatBadUnit ==
    [columns |-> <<"Time", "Current", "Voltage">>,
     date_column |-> {<<"Time", "sec">>}]

\* what a user may leave in a format file
UserFormats == {FormatThree, FormatBadUnit}

\* a raw array file: absent, 4 columns, 3 columns, one-dimensional (no
\* column to index), or not loadable at all
NpyFile(name, kind, size) ==
    CASE kind = "four" -> {<< <<name>>, Source("npy", TRUE, 4, size) >>}
      [] kind = "three" -> {<< <<name>>, Source("npy", TRUE, 3, size) >>}
      [] kind = "flat" -> {<< <<name>>, Source("npy", TRUE, 0, size) >>}
      [] kind = "broken" -> {<< <<name>>, Source("npy", FALSE, 0, size) >>}
      [] OTHER -> {}

NpyFileSystem(a, upper, b, hid, pre, user) ==
    [dirs |-> {Root},
     files |-> FunctionOf(
        {<< <<Notes>>, Other >>}
        \cup NpyFile(NpyA, a, 3)
        \cup NpyFile(NpyAUpper, upper, 5)
        \cup NpyFile(NpyB, b, 7)
        \cup NpyFile(NpyHidden, hid, 11)
        \cup (IF pre
               THEN {<< WithSuffixParquet(<<NpyA>>), Parquet(NoPath, 0, 2) >>}
               ELSE {})
        \cup {<< <<UserYaml>>, Yaml(f) >> : f \in user})]

NpyFileSystems ==
    {NpyFileSystem(a, upper, b, hid, pre, user) :
        a \in {"absent", "four", "three"},
        upper \in {"absent", "four"},
        b \in {"absent", "four", "three", "flat", "broken"},
        hid \in {"absent", "four"},
        pre \in BOOLEAN,
        user \in {{}, {FormatThree}}}

-----------------------------------------------------------------------------
(* Discovery *)

Entries == dirs \cup DOMAIN files

\* Path.exists()
Exists(p) == p \in Entries

\* Path.is_dir()
IsDir(p) == p \in dirs

\* the entries Path.glob yields in directory d before the pattern is applied;
\* pathlib's "*" matches names that start with a dot as well
Children(d) == {p \in Entries : Len(p) = Len(d) + 1 /\ Parent(p) = d}

\* campaign_directories
CampaignDirectories ==
    {item \in Children(Root) :
        /\ MatchesDirectoryPattern(Name(item))
        /\ IsDir(item)
        /\ ~IsHidden(Name(item))}

\* experiment_directories
ExperimentDirectories(campaign_directory) ==
    {item \in Children(campaign_directory) :
        /\ MatchesSubdirectoryPattern(Name(item))
        /\ IsDir(item)
        /\ ~IsHidden(Name(item))}

\* csv_filenames, before the sort
CsvFilenames(experiment_directory) ==
    {item \in Children(experiment_directory) : MatchesCsvPattern(Name(item))}

\* npy_filenames
NpyFilenames ==
    {item \in Children(Root) : MatchesNpyPattern(Name(item))}

-----------------------------------------------------------------------------
(* Skip/overwrite decision, loading, reporting *)

\* the decision without its `not arguments.overwrite`
ShouldSkipIgnoringOverwrite(candidate) == Exists(WithSuffixParquet(candidate))

\* the decision with the flag inverted
ShouldSkipInverted(candidate) ==
    Exists(WithSuffixParquet(candidate)) /\ overwrite

\* "Don't overwrite unless we're ordered to!"
ShouldSkip(candidate) == Exists(WithSuffixParquet(candidate)) /\ ~overwrite

\* pandas.read_csv / numpy.load succeeds on the file
Loads(f) == f \in DOMAIN files /\ files[f].ok

\* the DataFrame construction and the to_datetime loop raise
MappingFails(array, fmt) ==
    \/ Len(fmt.columns) > array.ncols
    \/ \E d \in fmt.date_column :
          d[1] \notin Range(fmt.columns) \/ d[2] \notin ValidUnits

RECURSIVE SizeSum(_)
SizeSum(S) ==
    IF S = {} THEN 0
    ELSE LET f == CHOOSE x \in S : TRUE IN files[f].size + SizeSum(S \ {f})

\* st_size of the Parquet file written from the sources
ParquetSize(sources) == 1 + Cardinality(sources)

\* the csv_filename the raise of line 195 formats: a comprehension's variable
\* is local to it, so the name is the one the size loop (180-181) left bound
CsvFilenameInMessage(csv_filenames) == csv_filenames[Len(csv_filenames)]

\* position of the first file read_csv fails on
FirstFailure(csv_filenames) ==
    CHOOSE i \in 1..Len(csv_filenames) :
        /\ ~Loads(csv_filenames[i])
        /\ \A j \in 1..(i - 1) : Loads(csv_filenames[j])

NoError == [kind |-> "none", file |-> NoPath, index |-> FALSE, datetimes |-> FALSE]

\* "Give final feedback"
FinalFeedback ==
    IF num_files_converted # 0
    THEN [kind |-> "ratio", converted |-> num_files_converted,
          num |-> original_sizes, den |-> parquet_sizes, skipped |-> 0]
    ELSE IF ~overwrite /\ num_files_skipped # 0
    THEN [kind |-> "skipped", converted |-> 0, num |-> 0, den |-> 0,
          skipped |-> num_files_skipped]
    ELSE [kind |-> "nothing", converted |-> 0, num |-> 0, den |-> 0,
          skipped |-> 0]

\* the loop moves on from a candidate; the inner loop of a campaign ends
\* with its last experiment
MoveOn(candidate) ==
    /\ todo' = todo \ {candidate}
    /\ curCamp' = IF todo = {candidate} THEN NoPath ELSE curCamp

Args == <<pipeline, overwrite, index, datetimes, formatArg, npy_format>>

-----------------------------------------------------------------------------
(* Initial states: the script has parsed its arguments and listed the start *)
(* directory (lines 112-140 of csv_to_parquet, 79-106 of npy_to_parquet)    *)

Fresh ==
    /\ pc = "scan"
    /\ curCamp = NoPath
    /\ original_sizes = 0
    /\ parquet_sizes = 0
    /\ num_files_converted = 0
    /\ num_files_skipped = 0
    /\ empty_directories = <<>>
    /\ summary = <<>>
    /\ error = NoError
    /\ listed = {}
    /\ statted = {}
    /\ loaded = {}
    /\ written = {}
    /\ skipped = {}

InitCsv ==
    \E fs \in CsvFileSystems :
        /\ pipeline = "csv"
        /\ overwrite \in BOOLEAN
        /\ index \in BOOLEAN
        /\ datetimes \in BOOLEAN
        /\ formatArg = NoPath
        /\ npy_format = NoFormat
        /\ dirs = fs.dirs
        /\ files = fs.files
        /\ campaign_directories = CampaignDirectories
        /\ campTodo = CampaignDirectories
        /\ todo = {}
        /\ selected = CampaignDirectories
        /\ run = 1
        /\ prev = [pc |-> "none", overwrite |-> FALSE, edited |-> FALSE,
                   files |-> fs.files]
        /\ Fresh

InitNpy ==
    \E fs \in NpyFileSystems :
        /\ pipeline = "npy"
        /\ overwrite \in BOOLEAN
        /\ index = FALSE
        /\ datetimes = FALSE
        /\ dirs = fs.dirs
        /\ files = fs.files
        /\ formatArg \in {NoPath} \cup ({<<UserYaml>>} \cap DOMAIN fs.files)
        /\ npy_format = IF formatArg = NoPath THEN NpyFormatDefault
                        ELSE files[formatArg].fmt
        /\ campaign_directories = {}
        /\ campTodo = {}
        /\ todo = NpyFilenames
        /\ selected = NpyFilenames
        /\ run = 1
        /\ prev = [pc |-> "none", overwrite |-> FALSE, edited |-> FALSE,
                   files |-> fs.files]
        /\ Fresh

Init == InitCsv \/ InitNpy

-----------------------------------------------------------------------------
(* csv_to_parquet: one action per iteration of a loop.  Path.glob yields   *)
(* its entries in no specified order, so a loop takes any entry it has not *)
(* reached yet; only csv_filenames is sorted.                              *)

Accumulators == <<original_sizes, parquet_sizes, num_files_converted,
                  num_files_skipped, empty_directories>>

History == <<selected, listed, statted, loaded, written, skipped>>

\* lines 142-152 and, for a campaign without experiments, 231-235
CsvCampaign(campaign_directory) ==
    /\ pipeline = "csv" /\ pc = "scan" /\ curCamp = NoPath
    /\ campaign_directory \in campTodo
    /\ LET experiment_directories == ExperimentDirectories(campaign_directory)
       IN  /\ campTodo' = campTodo \ {campaign_directory}
           /\ selected' = selected \cup experiment_directories
           /\ todo' = experiment_directories
           /\ IF experiment_directories = {}
              THEN /\ empty_directories' = Append(empty_directories,
                          [dir |-> campaign_directory, level |-> "campaign"])
                   /\ curCamp' = NoPath
              ELSE /\ curCamp' = campaign_directory
                   /\ UNCHANGED empty_directories
    /\ UNCHANGED <<Args, dirs, files, pc, campaign_directories, original_sizes,
                   parquet_sizes, num_files_converted, num_files_skipped,
                   summary, error, run, listed, statted, loaded, written,
                   skipped, prev>>

\* lines 159-162
CsvSkip(experiment_directory) ==
    /\ pipeline = "csv" /\ pc = "scan"
    /\ experiment_directory \in todo
    /\ ShouldSkip(experiment_directory)
    /\ num_files_skipped' = num_files_skipped + 1
    /\ skipped' = skipped \cup {experiment_directory}
    /\ MoveOn(experiment_directory)
    /\ UNCHANGED <<Args, dirs, files, pc, campaign_directories, campTodo,
                   original_sizes, parquet_sizes, num_files_converted,
                   empty_directories, summary, error, run, selected, listed,
                   statted, loaded, written, prev>>

\* lines 164-177
CsvEmpty(experiment_directory) ==
    /\ pipeline = "csv" /\ pc = "scan"
    /\ experiment_directory \in todo
    /\ ~ShouldSkip(experiment_directory)
    /\ CsvFilenames(experiment_directory) = {}
    /\ listed' = listed \cup {experiment_directory}
    /\ empty_directories' = Append(empty_directories,
            [dir |-> experiment_directory, level |-> "experiment"])
    /\ MoveOn(experiment_directory)
    /\ UNCHANGED <<Args, dirs, files, pc, campaign_directories, campTodo,
                   original_sizes, parquet_sizes, num_files_converted,
                   num_files_skipped, summary, error, run, selected, statted,
                   loaded, written, skipped, prev>>

\* a loader that gives up on the experiment and goes on with the next one
CsvReadFailContinue(experiment_directory) ==
    /\ pipeline = "csv" /\ pc = "scan"
    /\ experiment_directory \in todo
    /\ ~Exists(WithSuffixParquet(experiment_directory)) \/ overwrite
    /\ LET found == CsvFilenames(experiment_directory)
           csv_filenames == Sorted(found)
       IN  /\ found # {}
           /\ \E f \in found : ~Loads(f)
           /\ listed' = listed \cup {experiment_directory}
           /\ selected' = selected \cup found
           /\ statted' = statted \cup found
           /\ original_sizes' = original_sizes + SizeSum(found)
           /\ loaded' = loaded \cup
                {csv_filenames[i] : i \in 1..FirstFailure(csv_filenames)}
    /\ MoveOn(experiment_directory)
    /\ UNCHANGED <<Args, dirs, files, pc, campaign_directories, campTodo,
                   parquet_sizes, num_files_converted, num_files_skipped,
                   empty_directories, summary, error, run, written, skipped,
                   prev>>

\* lines 164-199 when a read_csv raises
CsvReadFail(experiment_directory) ==
    /\ pipeline = "csv" /\ pc = "scan"
    /\ experiment_directory \in todo
    /\ ~ShouldSkip(experiment_directory)
    /\ LET found == CsvFilenames(experiment_directory)
           csv_filenames == Sorted(found)
       IN  /\ found # {}
           /\ \E f \in found : ~Loads(f)
           /\ listed' = listed \cup {experiment_directory}
           /\ selected' = selected \cup found
           /\ statted' = statted \cup found
           /\ original_sizes' = original_sizes + SizeSum(found)
           /\ loaded' = loaded \cup
                {csv_filenames[i] : i \in 1..FirstFailure(csv_filenames)}
           /\ error' = [kind |-> "read",
                        file |-> CsvFilenameInMessage(csv_filenames),
                        index |-> index, datetimes |-> datetimes]
    /\ pc' = "aborted"
    /\ MoveOn(experiment_directory)
    /\ UNCHANGED <<Args, dirs, files, campaign_directories, campTodo,
                   parquet_sizes, num_files_converted, num_files_skipped,
                   empty_directories, summary, run, written, skipped, prev>>

\* lines 164-229 when every file parses (the concatenation, the downcast and
\* the renaming work on the parsed frames and are taken to succeed)
CsvConvert(experiment_directory) ==
    /\ pipeline = "csv" /\ pc = "scan"
    /\ experiment_directory \in todo
    /\ ~ShouldSkip(experiment_directory)
    /\ LET found == CsvFilenames(experiment_directory)
           parquet_filename == WithSuffixParquet(experiment_directory)
           size == ParquetSize(found)
       IN  /\ found # {}
           /\ \A f \in found : Loads(f)
           /\ listed' = listed \cup {experiment_directory}
           /\ selected' = selected \cup found
           /\ statted' = statted \cup found
           /\ original_sizes' = original_sizes + SizeSum(found)
           /\ loaded' = loaded \cup found
           /\ files' = (parquet_filename :>
                            Parquet(experiment_directory, run, size)) @@ files
           /\ written' = written \cup
                {[path |-> parquet_filename, by |-> experiment_directory,
                  size |-> size]}
           /\ parquet_sizes' = parquet_sizes + size
    /\ num_files_converted' = num_files_converted + 1
    /\ MoveOn(experiment_directory)
    /\ UNCHANGED <<Args, dirs, pc, campaign_directories, campTodo,
                   num_files_skipped, empty_directories, summary, error, run,
                   skipped, prev>>

\* lines 237-256: arguments has no attribute `directory`, so formatting the
\* entry for an empty start directory raises AttributeError; lines 258-261
\* only print what was recorded
CsvFinish ==
    /\ pipeline = "csv" /\ pc = "scan" /\ curCamp = NoPath /\ campTodo = {}
    /\ IF campaign_directories = {}
       THEN /\ pc' = "aborted"
            /\ error' = [kind |-> "attribute", file |-> NoPath,
                         index |-> FALSE, datetimes |-> FALSE]
            /\ UNCHANGED summary
       ELSE /\ pc' = "done"
            /\ summary' = Append(summary, FinalFeedback)
            /\ UNCHANGED error
    /\ UNCHANGED <<Args, dirs, files, campaign_directories, campTodo, curCamp,
                   todo, Accumulators, run, History, prev>>

-----------------------------------------------------------------------------
(* npy_to_parquet: one action per iteration of the loop *)

\* lines 113-116
NpySkip(npy_filename) ==
    /\ pipeline = "npy" /\ pc = "scan"
    /\ npy_filename \in todo
    /\ ShouldSkip(npy_filename)
    /\ num_files_skipped' = num_files_skipped + 1
    /\ skipped' = skipped \cup {npy_filename}
    /\ MoveOn(npy_filename)
    /\ UNCHANGED <<Args, dirs, files, pc, campaign_directories, campTodo,
                   original_sizes, parquet_sizes, num_files_converted,
                   empty_directories, summary, error, run, selected, listed,
                   statted, loaded, written, prev>>

\* lines 118-122 when numpy.load raises: the call is outside the try
NpyLoadFail(npy_filename) ==
    /\ pipeline = "npy" /\ pc = "scan"
    /\ npy_filename \in todo
    /\ ~ShouldSkip(npy_filename)
    /\ ~Loads(npy_filename)
    /\ statted' = statted \cup {npy_filename}
    /\ original_sizes' = original_sizes + files[npy_filename].size
    /\ loaded' = loaded \cup {npy_filename}
    /\ error' = [kind |-> "load", file |-> npy_filename,
                 index |-> FALSE, datetimes |-> FALSE]
    /\ pc' = "aborted"
    /\ MoveOn(npy_filename)
    /\ UNCHANGED <<Args, dirs, files, campaign_directories, campTodo,
                   parquet_sizes, num_files_converted, num_files_skipped,
                   empty_directories, summary, run, selected, listed, written,
                   skipped, prev>>

\* an except branch that raises without writing the template
NpyMismatchNoTemplate(npy_filename) ==
    /\ pipeline = "npy" /\ pc = "scan"
    /\ npy_filename \in todo
    /\ ~Exists(WithSuffixParquet(npy_filename)) \/ overwrite
    /\ Loads(npy_filename)
    /\ MappingFails(files[npy_filename], npy_format)
    /\ statted' = statted \cup {npy_filename}
    /\ original_sizes' = original_sizes + files[npy_filename].size
    /\ loaded' = loaded \cup {npy_filename}
    /\ error' = [kind |-> "format", file |-> npy_filename,
                 index |-> FALSE, datetimes |-> FALSE]
    /\ pc' = "aborted"
    /\ MoveOn(npy_filename)
    /\ UNCHANGED <<Args, dirs, files, campaign_directories, campTodo,
                   parquet_sizes, num_files_converted, num_files_skipped,
                   empty_directories, summary, run, selected, listed, written,
                   skipped, prev>>

\* lines 118-148 when the mapping raises
NpyMismatch(npy_filename) ==
    /\ pipeline = "npy" /\ pc = "scan"
    /\ npy_filename \in todo
    /\ ~ShouldSkip(npy_filename)
    /\ Loads(npy_filename)
    /\ MappingFails(files[npy_filename], npy_format)
    /\ statted' = statted \cup {npy_filename}
    /\ original_sizes' = original_sizes + files[npy_filename].size
    /\ loaded' = loaded \cup {npy_filename}
    /\ files' = (FormatFileOf(npy_filename) :> Yaml(NpyFormatDefault)) @@ files
    /\ error' = [kind |-> "format", file |-> npy_filename,
                 index |-> FALSE, datetimes |-> FALSE]
    /\ pc' = "aborted"
    /\ MoveOn(npy_filename)
    /\ UNCHANGED <<Args, dirs, campaign_directories, campTodo, parquet_sizes,
                   num_files_converted, num_files_skipped, empty_directories,
                   summary, run, selected, listed, written, skipped, prev>>

\* lines 118-159 when the array fits the format
NpyConvert(npy_filename) ==
    /\ pipeline = "npy" /\ pc = "scan"
    /\ npy_filename \in todo
    /\ ~ShouldSkip(npy_filename)
    /\ Loads(npy_filename)
    /\ ~MappingFails(files[npy_filename], npy_format)
    /\ LET parquet_filename == WithSuffixParquet(npy_filename)
           size == ParquetSize({npy_filename})
       IN  /\ files' = (parquet_filename :>
                            Parquet(npy_filename, run, size)) @@ files
           /\ written' = written \cup
                {[path |-> parquet_filename, by |-> npy_filename,
                  size |-> size]}
           /\ parquet_sizes' = parquet_sizes + size
    /\ statted' = statted \cup {npy_filename}
    /\ original_sizes' = original_sizes + files[npy_filename].size
    /\ loaded' = loaded \cup {npy_filename}
    /\ num_files_converted' = num_files_converted + 1
    /\ MoveOn(npy_filename)
    /\ UNCHANGED <<Args, dirs, pc, campaign_directories, campTodo,
                   num_files_skipped, empty_directories, summary, error, run,
                   selected, listed, skipped, prev>>

\* lines 161-174
NpyFinish ==
    /\ pipeline = "npy" /\ pc = "scan" /\ todo = {}
    /\ pc' = "done"
    /\ summary' = Append(summary, FinalFeedback)
    /\ UNCHANGED <<Args, dirs, files, campaign_directories, campTodo, curCamp,
                   todo, Accumulators, error, run, History, prev>>

-----------------------------------------------------------------------------
(* The user runs the script again over what the last run left *)

\* the module-level statements before the loop, on the file system as it is
Begin ==
    /\ run < MaxRuns
    /\ pc \in {"done", "aborted"}
    /\ run' = run + 1
    /\ pc' = "scan"
    /\ curCamp' = NoPath
    /\ original_sizes' = 0
    /\ parquet_sizes' = 0
    /\ num_files_converted' = 0
    /\ num_files_skipped' = 0
    /\ empty_directories' = <<>>
    /\ summary' = <<>>
    /\ error' = NoError
    /\ listed' = {}
    /\ statted' = {}
    /\ loaded' = {}
    /\ written' = {}
    /\ skipped' = {}
    /\ campaign_directories' =
            IF pipeline = "csv" THEN CampaignDirectories ELSE {}
    /\ campTodo' = IF pipeline = "csv" THEN CampaignDirectories ELSE {}
    /\ todo' = IF pipeline = "npy" THEN NpyFilenames ELSE {}
    /\ selected' = IF pipeline = "csv" THEN CampaignDirectories ELSE NpyFilenames
    /\ UNCHANGED <<pipeline, index, datetimes, dirs>>

\* the same command line, with or without --overwrite
Rerun ==
    /\ Begin
    /\ overwrite' \in BOOLEAN
    /\ npy_format' = IF pipeline = "csv" THEN NoFormat
                     ELSE IF formatArg = NoPath THEN NpyFormatDefault
                     ELSE files[formatArg].fmt
    /\ prev' = [pc |-> pc, overwrite |-> overwrite, edited |-> FALSE,
                files |-> files]
    /\ UNCHANGED <<formatArg, files>>

\* after a format mismatch the user does what the message says: edits the
\* generated template and passes it as --format
RerunWithTemplate ==
    /\ Begin
    /\ pipeline = "npy" /\ error.kind = "format"
    /\ \E fmt \in UserFormats :
         /\ files' = [files EXCEPT ![FormatFileOf(error.file)] = Yaml(fmt)]
         /\ npy_format' = fmt
         /\ prev' = [pc |-> pc, overwrite |-> overwrite, edited |-> TRUE,
                     files |-> files']
    /\ formatArg' = FormatFileOf(error.file)
    /\ UNCHANGED overwrite

Next ==
    \/ \E c \in campTodo : CsvCampaign(c)
    \/ \E e \in todo : CsvSkip(e)
    \/ \E e \in todo : CsvEmpty(e)
    \/ \E e \in todo : CsvReadFail(e)
    \/ \E e \in todo : CsvConvert(e)
    \/ CsvFinish
    \/ \E f \in todo : NpySkip(f)
    \/ \E f \in todo : NpyLoadFail(f)
    \/ \E f \in todo : NpyMismatch(f)
    \/ \E f \in todo : NpyConvert(f)
    \/ NpyFinish
    \/ Rerun
    \/ RerunWithTemplate

Spec == Init /\ [][Next]_vars

-----------------------------------------------------------------------------
(* Properties *)

OutputOf(candidate) == WithSuffixParquet(candidate)

\* the experiment directories (csv) or source files (npy) the loop has
\* reached in this run
Candidates ==
    IF pipeline = "csv" THEN {p \in selected \ todo : Len(p) = 2}
    ELSE {p \in selected \ todo : Len(p) = 1}

\* every candidate of the tree as it is now
AllCandidates ==
    IF pipeline = "csv"
    THEN UNION {ExperimentDirectories(c) : c \in CampaignDirectories}
    ELSE NpyFilenames

HasDiagnostic(d, level) ==
    \E i \in 1..Len(empty_directories) :
        empty_directories[i] = [dir |-> d, level |-> level]

RECURSIVE WrittenSizeSum(_)
WrittenSizeSum(W) ==
    IF W = {} THEN 0
    ELSE LET w == CHOOSE x \in W : TRUE IN w.size + WrittenSizeSum(W \ {w})

\* the load of source file f fails: the parser rejects it, or (npy) the
\* array does not fit the Format Specification of the run
LoadFailed(f) ==
    \/ ~files[f].ok
    \/ pipeline = "npy" /\ MappingFails(files[f], npy_format)

\* this run follows a run without --overwrite, is itself without
\* --overwrite, and the user changed nothing in between
SecondPlainRun == run >= 2 /\ ~prev.overwrite /\ ~overwrite /\ ~prev.edited

\* C1: a candidate whose output exists while overwrite is not requested is
\* skipped: the skipped-count goes up by one, no file changes, none of its
\* sources is listed, stat-ed or loaded, and the loop goes on; and the
\* skipped-count only ever changes for such a candidate.
C1_SkipFrame ==
    [][run' = run =>
        /\ \A c \in todo :
              (c \notin todo' /\ Exists(OutputOf(c)) /\ ~overwrite) =>
                 /\ num_files_skipped' = num_files_skipped + 1
                 /\ files' = files
                 /\ listed' = listed
                 /\ statted' = statted
                 /\ loaded' = loaded
                 /\ pc' = "scan"
        /\ num_files_skipped' # num_files_skipped =>
              \E c \in todo \ todo' :
                 /\ Exists(OutputOf(c)) /\ ~overwrite
                 /\ num_files_skipped' = num_files_skipped + 1]_vars

\* a run has skipped one candidate and converted another
C1_Witness ==
    pc = "done" /\ skipped # {} /\ num_files_converted > 0 /\ ~overwrite

C3_EmptyMatchRecorded ==
    pipeline = "csv" =>
        /\ \A e \in listed :
              CsvFilenames(e) = {} =>
                 /\ HasDiagnostic(e, "experiment")
                 /\ \A w \in written : w.by # e
        /\ \A c \in campaign_directories \ (campTodo \cup {curCamp}) :
              ExperimentDirectories(c) = {} => HasDiagnostic(c, "campaign")
        /\ (campaign_directories = {} /\ pc # "scan") =>
              /\ pc = "done"
              /\ HasDiagnostic(Root, "start")
              /\ Len(summary) = 1

\* C4: once a load has failed the run is over with an error and without a
\* summary, and a run that is over does nothing more: no later candidate is
\* loaded or written, nothing is retried.
C4_FailFast ==
    [][/\ (\E f \in loaded' : LoadFailed(f)) =>
             (pc' = "aborted" /\ error'.kind # "none" /\ summary' = <<>>)
       /\ (pc = "aborted" /\ run' = run) =>
             /\ loaded' = loaded
             /\ written' = written
             /\ files' = files
             /\ summary' = summary
             /\ pc' = "aborted"]_vars

\* a run aborted on a bad file after a conversion, with candidates left
C4_Witness ==
    /\ pc = "aborted" /\ error.kind \in {"read", "format"}
    /\ todo # {} /\ num_files_converted > 0

\* C5 as stated: every failure of the loading and mapping stage of a file
\* leaves the default Format Specification in <file>_format.yml, writes no
\* Parquet output for the file, and aborts the run.
C5_AnyFailureWritesTemplate ==
    pipeline = "npy" =>
        \A f \in loaded :
            LoadFailed(f) =>
               /\ pc = "aborted"
               /\ FormatFileOf(f) \in DOMAIN files
               /\ files[FormatFileOf(f)] = Yaml(NpyFormatDefault)
               /\ \A w \in written : w.by # f

\* C5 as amended: a loaded array that does not fit the Format Specification
\* leaves the default in <file>_format.yml, gets no Parquet output and
\* aborts the run as a format mismatch; a file numpy.load cannot load aborts
\* the run with the loader's error, and the run writes no format file.
C5_MismatchWritesTemplate ==
    pipeline = "npy" =>
        \A f \in loaded :
            /\ (files[f].ok /\ MappingFails(files[f], npy_format)) =>
                  /\ pc = "aborted"
                  /\ error = [kind |-> "format", file |-> f,
                              index |-> FALSE, datetimes |-> FALSE]
                  /\ FormatFileOf(f) \in DOMAIN files
                  /\ files[FormatFileOf(f)] = Yaml(NpyFormatDefault)
                  /\ \A w \in written : w.by # f
            /\ ~files[f].ok =>
                  /\ pc = "aborted"
                  /\ error.kind = "load" /\ error.file = f
                  /\ \A w \in written : w.by # f
                  /\ \A p \in DOMAIN files :
                        files[p].type = "yml" =>
                           p \in DOMAIN prev.files /\ files[p] = prev.files[p]

\* a format mismatch after a conversion: the template is there
C5_Witness ==
    /\ pipeline = "npy" /\ pc = "aborted" /\ error.kind = "format"
    /\ num_files_converted > 0
    /\ FormatFileOf(error.file) \in DOMAIN files

\* what the summary of a run that reached it must be
SummaryMatchesRun ==
    /\ Len(summary) = 1
    /\ IF written # {}
       THEN summary[1] = [kind |-> "ratio",
                          converted |-> Cardinality(written),
                          num |-> SizeSum(loaded),
                          den |-> WrittenSizeSum(written), skipped |-> 0]
       ELSE IF ~overwrite /\ skipped # {}
       THEN summary[1] = [kind |-> "skipped", converted |-> 0, num |-> 0,
                          den |-> 0, skipped |-> Cardinality(skipped)]
       ELSE summary[1] = [kind |-> "nothing", converted |-> 0, num |-> 0,
                          den |-> 0, skipped |-> 0]

\* the final feedback is right whenever it is printed
SummaryRightWhenPrinted == pc = "done" => SummaryMatchesRun

\* C6: a run whose traversal completed (no load failed) has printed exactly
\* one summary, of the kind the run determines: the ratio when an output
\* was written, else the skipped count when candidates were skipped without
\* overwrite, else that nothing was converted.
C6_OneSummary ==
    (pc # "scan" /\ \A f \in loaded : ~LoadFailed(f)) => SummaryMatchesRun

\* C7: distinct candidates have distinct output paths; no candidate is
\* skipped because of, or overwrites, the output of another one.
C7_DistinctOutputs ==
    /\ \A c1, c2 \in Candidates :
          c1 # c2 => OutputOf(c1) # OutputOf(c2)
    /\ \A s \in skipped : \A w \in written : w.path # OutputOf(s)
    /\ \A w1, w2 \in written : w1.path = w2.path => w1.by = w2.by

\* C8: the error of a failed CSV read names the file whose parse failed and
\* mentions the index/datetime columns that are set.
C8_NamesOffendingFile ==
    (pipeline = "csv" /\ error.kind = "read") =>
        /\ error.file \in loaded
        /\ ~files[error.file].ok
        /\ error.index = index
        /\ error.datetimes = datetimes

\* C9: discovery yields no hidden entry at any level, and no non-directory
\* where it enumerates directories; none is loaded or converted.
C9_NoHiddenSelected ==
    /\ \A p \in (selected \ todo) \cup loaded \cup {w.by : w \in written} :
          ~IsHidden(Name(p))
    /\ pipeline = "csv" => \A p \in selected : Len(p) <= 2 => IsDir(p)

\* C10: the file given as --format is as it was when the run loaded it, and
\* a run changes no source file.
C10_FormatFileUntouched ==
    pipeline = "npy" =>
        /\ formatArg # NoPath => files[formatArg] = prev.files[formatArg]
        /\ \A p \in DOMAIN prev.files :
              prev.files[p].type \in {"npy", "other"} =>
                 files[p] = prev.files[p]

=============================================================================
